---- MODULE Spec2Model ----
(***************************************************************************)
(* Model of the wireless screen sharing system: the relay hub              *)
(* (server/src/config/socket.js), the presenter's capture pipeline and     *)
(* adaptive quality controller (client/lecturer/js/screenCapture.js) and   *)
(* the viewer's frame consumer and reconnection logic                      *)
(* (client/student/js/app.js, duplicated in client/shared/js/utils.js),    *)
(* and the presenter page's startSharing / stopSharing                     *)
(* (client/lecturer/js/app.js).                                            *)
(*                                                                         *)
(* Each component has its own specification (SpecHub, SpecCapture,         *)
(* SpecConsumer, SpecReconnect, SpecController, SpecApp) over its own      *)
(* variables; the variables of the other components stay at their initial  *)
(* values.  SpecE2E runs presenter, hub and viewer together over ordered   *)
(* links.                                                                  *)
(***************************************************************************)
EXTENDS Integers, Sequences, FiniteSets, TLC

VARIABLES
    \* ---- relay hub (socket.js) ----
    clients,        \* the Map `clients` in insertion order: Seq of [id, type]
    nextId,         \* the socket.id the transport gives the next connection (never reused)
    ioSockets,      \* the sockets currently in the namespace (io.sockets), by socket.id
    sent,           \* what the last handler emitted, in order: Seq of [event, to, data]
    hubEvent        \* the event the last handler processed: [kind, from, data]

VARIABLES
    \* ---- presenter capture pipeline (screenCapture.js) ----
    stream,             \* this.stream is set
    isSharing,          \* settings.isSharing
    rafId,              \* this.rafId: 0 is null, 1 a handle
    rafPending,         \* the animation-frame callback of rafId is still scheduled
    frameId,            \* this.frameId
    framesSent,         \* this.framesSent
    quality,            \* settings.quality, in hundredths
    autoAdjustQuality,  \* settings.autoAdjustQuality
    socketState,        \* this.socket: "null", "disconnected" or "connected"
    inflight,           \* captureAndProcessFrame calls suspended in `await encodeFrame()`
    emitted,            \* the screen-data messages emitted by the last step
    capOp,              \* the last operation of the component and its outcome
    metricsDropped,     \* this.metrics.droppedFrames
    lastSentId,         \* the frameId of the last screen-data message emitted, -1 before the first
    destroyed           \* destroy() has run: this.settings and this.metrics are null

VARIABLES
    \* ---- presenter: pacing of the capture loop (screenCapture.js startCapture) ----
    perfNow,            \* performance.now(), in milliseconds
    startedAt,          \* performance.now() when startCapture last ran
    lastFrameTime,      \* the `let lastFrameTime` of the captureFrame closure
    captureCalls,       \* calls of captureAndProcessFrame since startCapture last ran
    paceOp              \* the last step: "new", "start", "capture" or "skip"

VARIABLES
    \* ---- adaptive quality controller driven directly (screenCapture.js) ----
    ctlPrev,            \* settings.quality before the last controller call
    ctlSize,            \* the frameSize of the last controller call
    ctlOp               \* the last call: "new", "adjust" or "setQuality"

VARIABLES
    \* ---- viewer: frame consumer (student/js/app.js, shared/js/utils.js) ----
    lastFrameId,        \* this.lastFrameId
    droppedFrames,      \* this.droppedFrames
    frameCount,         \* this.frameCount
    rxIds               \* the frameIds of the frames handled so far, in arrival order

VARIABLES
    \* ---- viewer: connection quality indicator (student/js/app.js) ----
    connectionQuality,  \* this.connectionQuality: "good", "fair" or "poor"
    rxLatency,          \* milliseconds between the stamp of the last frame and its receipt
    rxFps,              \* what fpsCounter.tick() returned for the last frame
    tierOp              \* the last step: "new" or "frame"

VARIABLES
    \* ---- viewer: reconnection (student/js/app.js, shared/js/utils.js) ----
    vSocket,            \* the transport: "connecting", "connected" or "closed"
    listening,          \* the socket handlers are attached (until socket.off())
    reconnectAttempts,  \* this.reconnectAttempts
    reconnectTimeout,   \* this.reconnectTimeout: "null", or the handle of a "live" or "dead" timer
    timers,             \* delays of the pending setTimeout callbacks, oldest first
    netOnline,          \* navigator.onLine as last reported by the online/offline events
    status,             \* what updateStatus last displayed
    errorShown,         \* showError has displayed the give-up message
    vOp                 \* the last handler that ran

VARIABLES
    \* ---- presenter application (lecturer/js/app.js) ----
    appPhase,           \* where a startSharing call is suspended: "idle" (none),
                        \* "media", "retry", "play" or "capture"
    appIsSharing,       \* this.isSharing
    appStream,          \* this.stream: "null", or "live" (held, tracks not stopped)
    screenCapture,      \* this.screenCapture is set
    scStream,           \* the stream of that ScreenCapture instance is held and live
    orphanStreams,      \* live streams held by instances the app no longer refers to
    onended,            \* track.onended of the app's stream is registered
    startDisabled,      \* startButton.disabled
    isSocketConnected,  \* this.isSocketConnected
    sessions,           \* startSharing calls that got past the isSharing guard
    appOp               \* the last operation: [op, ok]

VARIABLES
    \* ---- transport between presenter, hub and viewer (end to end) ----
    upLink,             \* screen-data messages sent by the presenter, not yet at the hub
    downLink,           \* screen-update messages sent to the viewer, not yet handled
    presenterId,        \* socket.id of the presenter's connection, 0 before it connects
    viewerId,           \* socket.id of the viewer's connection, 0 before it connects
    viewerFrom          \* frames the presenter had sent when the hub recorded the
                        \* viewer's identify, -1 before that

hubVars == <<clients, nextId, ioSockets, sent, hubEvent>>

ctlVars == <<ctlPrev, ctlSize, ctlOp>>

rxVars == <<lastFrameId, droppedFrames, frameCount, rxIds>>

recVars == <<vSocket, listening, reconnectAttempts, reconnectTimeout, timers, netOnline,
             status, errorShown, vOp>>

capVars == <<stream, isSharing, rafId, rafPending, frameId, framesSent, quality,
             autoAdjustQuality, socketState, inflight, emitted, capOp, metricsDropped,
             lastSentId, destroyed>>

appVars == <<appPhase, appIsSharing, appStream, screenCapture, scStream, orphanStreams,
             onended, startDisabled, isSocketConnected, sessions, appOp>>

linkVars == <<upLink, downLink, presenterId, viewerId, viewerFrom>>

paceVars == <<perfNow, startedAt, lastFrameTime, captureCalls, paceOp>>

tierVars == <<connectionQuality, rxLatency, rxFps, tierOp>>

vars == <<hubVars, capVars, ctlVars, rxVars, recVars, appVars, linkVars, paceVars, tierVars>>

(***************************************************************************)
(* Bounds                                                                  *)
(***************************************************************************)
\* number of transport connections made to the hub over a run
MaxConns == 4

\* number of captureAndProcessFrame calls that can be suspended in their encode at once
MaxInflight == 2
\* largest value the producer's frame counter is let to reach
MaxFrameId == 3
\* number of frames the consumer is fed
MaxRx == 3
\* largest frameId of a frame fed to the consumer
MaxRxId == 4
\* number of sharing sessions the presenter starts
MaxSessions == 2
\* end to end: connections made to the hub, and frames the presenter sends
E2EConns == 3
E2EFrames == 10

ConnIds == 1..MaxConns
\* sample readings of the hub's clock (new Date()) and of a sender's clock (Date.now())
HubClock == {2}
SenderClock == {1}

(***************************************************************************)
(* Relay hub                                                               *)
(***************************************************************************)
Types == {"unknown", "lecturer", "student"}

\* timestamps: the clients send Date.now() (a number of milliseconds), the hub
\* writes new Date().toISOString() (a string)
MsTime(t) == [fmt |-> "ms", v |-> t]
IsoTime(t) == [fmt |-> "iso", v |-> t]

\* the frame messages a presenter can send
Frames ==
    [image : {"img"}, frameId : {0, 1}, timestamp : {MsTime(t) : t \in SenderClock},
     size : {1}, quality : {70}]

NoEvent == [kind |-> "none", from |-> 0, data |-> [none |-> TRUE]]

ClientIds == {clients[i].id : i \in DOMAIN clients}

\* clientData.type of a connection, through the handler's closure
TypeOf(id) ==
    LET i == CHOOSE j \in DOMAIN clients : clients[j].id = id IN clients[i].type

Emit(ev, to, d) == [event |-> ev, to |-> to, data |-> d]

\* io.emit(ev, d): one message to every socket connected to the hub
IoEmit(cl, ev, d) == Emit(ev, {cl[i].id : i \in DOMAIN cl}, d)

broadcastStaleCount(cl) == IoEmit(cl, "client-count", [count |-> Len(cl) + 1])

broadcastClientCount(cl) == IoEmit(cl, "client-count", [count |-> Len(cl)])

\* Array.from(clients.values()).find(...): the first lecturer in insertion order
broadcastLecturerStatus(cl) ==
    LET L == SelectSeq(cl, LAMBDA r : r.type = "lecturer") IN
    IoEmit(cl, "lecturer-status",
           [isOnline |-> Len(L) > 0, lecturer |-> IF Len(L) > 0 THEN L[1].id ELSE 0])

\* io.on('connection'): a record with type 'unknown', then the lecturer status
onConnection(c) ==
    /\ c = nextId
    /\ nextId' = nextId + 1
    /\ ioSockets' = ioSockets \cup {c}
    /\ clients' = Append(clients, [id |-> c, type |-> "unknown"])
    /\ sent' = <<broadcastLecturerStatus(clients')>>
    /\ hubEvent' = [kind |-> "connection", from |-> c, data |-> [none |-> TRUE]]

Connection(c) ==
    /\ onConnection(c)
    /\ UNCHANGED <<capVars, ctlVars, rxVars, recVars, appVars, linkVars, paceVars, tierVars>>

AnnouncesEveryRole(t) == TRUE

\* `if (data.type === 'lecturer')` of the identify handler
AnnouncesLecturer(t) == t = "lecturer"

\* socket.on('identify')
onIdentify(c, t) ==
    /\ c \in ClientIds
    /\ UNCHANGED <<nextId, ioSockets>>
    /\ clients' = [i \in DOMAIN clients |->
                     IF clients[i].id = c THEN [clients[i] EXCEPT !.type = t] ELSE clients[i]]
    /\ sent' = (IF AnnouncesLecturer(t)
                  THEN <<IoEmit(clients', "lecturer-connected", [id |-> c])>>
                  ELSE <<>>)
               \o <<broadcastClientCount(clients')>>
    /\ hubEvent' = [kind |-> "identify", from |-> c, data |-> [type |-> t]]

Identify(c, t) ==
    /\ onIdentify(c, t)
    /\ UNCHANGED <<capVars, ctlVars, rxVars, recVars, appVars, linkVars, paceVars, tierVars>>

ScreenUpdateWithoutId(f, sender, now) ==
    [image |-> f.image, frameId |-> 0, size |-> f.size, quality |-> f.quality,
     senderId |-> sender, timestamp |-> IsoTime(now)]

\* the relayed copy of a frame: {...data, senderId, timestamp: new Date().toISOString()}
ScreenUpdate(f, sender, now) ==
    [image |-> f.image, frameId |-> f.frameId, size |-> f.size, quality |-> f.quality,
     senderId |-> sender, timestamp |-> IsoTime(now)]

ScreenDataTargetsAnyRole(sender) ==
    SelectSeq(clients, LAMBDA r : r.id # sender)

\* the loop of socket.on('screen-data'): the records with type 'student'
ScreenDataTargets(sender) ==
    SelectSeq(clients, LAMBDA r : r.type = "student" /\ r.id # sender)

FallbackTargetsNone(sender) == {}

\* the fallback `socket.broadcast.emit`: every connection but the sender
FallbackTargets(sender) == ClientIds \ {sender}

MayRelayFramesAnyRole(t) == TRUE

\* socket.on('screen-data'): `if (clientData.type === 'lecturer')`
MayRelayFrames(t) == t = "lecturer"

\* socket.on('screen-data')
onScreenData(c, f, now) ==
    /\ c \in ClientIds
    /\ UNCHANGED <<nextId, ioSockets>>
    /\ UNCHANGED clients
    /\ hubEvent' = [kind |-> "screen-data", from |-> c, data |-> f]
    /\ IF MayRelayFrames(TypeOf(c))
         THEN LET targeted == ScreenDataTargets(c) IN
              IF Len(targeted) > 0
                THEN sent' = [i \in DOMAIN targeted |->
                                Emit("screen-update", {targeted[i].id}, ScreenUpdate(f, c, now))]
                \* socket.broadcast.emit: everyone but the sender
                ELSE sent' = <<Emit("screen-update", FallbackTargets(c), ScreenUpdate(f, c, now))>>
         ELSE sent' = <<>>

ScreenData(c, f, now) ==
    /\ onScreenData(c, f, now)
    /\ UNCHANGED <<capVars, ctlVars, rxVars, recVars, appVars, linkVars, paceVars, tierVars>>

ToEveryRecord(ev, d) == [i \in DOMAIN clients |-> Emit(ev, {clients[i].id}, d)]

\* the loop `if (client.type === 'lecturer') io.to(clientId).emit(ev, d)`
ToLecturers(ev, d) ==
    LET L == SelectSeq(clients, LAMBDA r : r.type = "lecturer") IN
    [i \in DOMAIN L |-> Emit(ev, {L[i].id}, d)]

\* socket.on('student-screen-data')
StudentScreenData(c, f, now) ==
    /\ c \in ClientIds
    /\ UNCHANGED <<nextId, ioSockets>>
    /\ UNCHANGED <<capVars, ctlVars, rxVars, recVars, appVars, linkVars, paceVars, tierVars>>
    /\ UNCHANGED clients
    /\ hubEvent' = [kind |-> "student-screen-data", from |-> c, data |-> f]
    /\ sent' = IF TypeOf(c) = "student"
                 THEN ToLecturers("student-screen-update",
                                  [image |-> f.image, frameId |-> f.frameId,
                                   studentId |-> c, timestamp |-> IsoTime(now)])
                 ELSE <<>>

\* socket.on('student-raised-hand')
StudentRaisedHand(c, now) ==
    /\ c \in ClientIds
    /\ UNCHANGED <<nextId, ioSockets>>
    /\ UNCHANGED <<capVars, ctlVars, rxVars, recVars, appVars, linkVars, paceVars, tierVars>>
    /\ UNCHANGED clients
    /\ hubEvent' = [kind |-> "student-raised-hand", from |-> c, data |-> [name |-> "Student"]]
    /\ sent' = ToLecturers("student-raised-hand",
                           [studentId |-> c, name |-> "Student", timestamp |-> IsoTime(now)])

\* socket.on('student-lowered-hand')
StudentLoweredHand(c, now) ==
    /\ c \in ClientIds
    /\ UNCHANGED <<nextId, ioSockets>>
    /\ UNCHANGED <<capVars, ctlVars, rxVars, recVars, appVars, linkVars, paceVars, tierVars>>
    /\ UNCHANGED clients
    /\ hubEvent' = [kind |-> "student-lowered-hand", from |-> c, data |-> [none |-> TRUE]]
    /\ sent' = ToLecturers("student-lowered-hand",
                           [studentId |-> c, timestamp |-> IsoTime(now)])

\* socket.on('student-reaction')
StudentReaction(c, now) ==
    /\ c \in ClientIds
    /\ UNCHANGED <<nextId, ioSockets>>
    /\ UNCHANGED <<capVars, ctlVars, rxVars, recVars, appVars, linkVars, paceVars, tierVars>>
    /\ UNCHANGED clients
    /\ hubEvent' = [kind |-> "student-reaction", from |-> c, data |-> [emoji |-> "e"]]
    /\ sent' = ToLecturers("student-reaction",
                           [studentId |-> c, emoji |-> "e", timestamp |-> IsoTime(now)])

DeleteNothing(cl, c) == cl

\* clients.delete(socket.id)
DeleteRecord(cl, c) == SelectSeq(cl, LAMBDA r : r.id # c)

\* socket.on('disconnect'): the socket has left the namespace when the handler runs
Disconnect(c) ==
    /\ c \in ioSockets
    /\ c \in ClientIds
    /\ ioSockets' = ioSockets \ {c}
    /\ UNCHANGED nextId
    /\ UNCHANGED <<capVars, ctlVars, rxVars, recVars, appVars, linkVars, paceVars, tierVars>>
    /\ LET wasLecturer == TypeOf(c) = "lecturer" IN
       /\ clients' = DeleteRecord(clients, c)
       /\ sent' = (IF wasLecturer
                     THEN <<broadcastLecturerStatus(clients'),
                            IoEmit(clients', "lecturer-disconnected", [id |-> c])>>
                     ELSE <<>>)
                  \o <<broadcastClientCount(clients')>>
    /\ hubEvent' = [kind |-> "disconnect", from |-> c, data |-> [none |-> TRUE]]

\* the frames of a viewer's own screen share (utils.js startStudentScreenCapture)
StudentFrames == [image : {"img"}, frameId : {0}, timestamp : {MsTime(t) : t \in SenderClock}]

\* the roles the two client applications identify with
IdentifyTypes == {"lecturer", "student"}

HubInit ==
    /\ clients = <<>>
    /\ nextId = 1
    /\ ioSockets = {}
    /\ sent = <<>>
    /\ hubEvent = NoEvent

HubNext ==
    \/ \E c \in ConnIds : Connection(c)
    \/ \E c \in ConnIds, t \in IdentifyTypes : Identify(c, t)
    \/ \E c \in ConnIds, f \in Frames, now \in HubClock : ScreenData(c, f, now)
    \/ \E c \in ConnIds, f \in StudentFrames, now \in HubClock : StudentScreenData(c, f, now)
    \/ \E c \in ConnIds, now \in HubClock : StudentRaisedHand(c, now)
    \/ \E c \in ConnIds, now \in HubClock : StudentLoweredHand(c, now)
    \/ \E c \in ConnIds, now \in HubClock : StudentReaction(c, now)
    \/ \E c \in ConnIds : Disconnect(c)

(***************************************************************************)
(* Presenter: capture loop, encode, size check, send                       *)
(***************************************************************************)
\* settings.maxFrameSize = 1.5 * 1024 * 1024
maxFrameSize == 1572864

\* lengths of the data URL an encode can return
EncodedSizes == {maxFrameSize \div 4, maxFrameSize \div 2, maxFrameSize, maxFrameSize + 1}

\* values a caller (the quality slider) can pass to setQuality, in hundredths
QualityInputs == {4, 50, 100}

\* Math.abs(newQuality - quality) > 0.05 as IEEE doubles evaluate it, n3 being the
\* proposed quality in thousandths: 0.5 * 1.1 - 0.5 and 0.9 - 0.85 both come out as
\* 0.050000000000000044, every other case on the grid agrees with exact arithmetic
ExceedsBand(q, n3) ==
    LET d == IF n3 > 10 * q THEN n3 - 10 * q ELSE 10 * q - n3 IN
    d > 50 \/ (q = 50 /\ n3 = 550) \/ (q = 85 /\ n3 = 900)

\* parseFloat(newQuality.toFixed(2)), in hundredths: round half up, but 0.95 * 0.9
\* is stored just below 0.855 and prints as 0.85
ToFixed2(n3) == IF n3 = 855 THEN 85 ELSE (n3 + 5) \div 10

Max(a, b) == IF a > b THEN a ELSE b
Min(a, b) == IF a < b THEN a ELSE b

\* adjustQualityBasedOnSize(frameSize): the new settings.quality
adjustQualityBasedOnSize(q, frameSize) ==
    IF frameSize > maxFrameSize
      THEN LET newQuality == Max(100, q * 9) IN
           IF ExceedsBand(q, newQuality) THEN ToFixed2(newQuality) ELSE q
      ELSE IF 2 * frameSize < maxFrameSize
        THEN LET newQuality == Min(900, q * 11) IN
             IF ExceedsBand(q, newQuality) THEN ToFixed2(newQuality) ELSE q
        ELSE q

DropForSizeNever(auto, size) == FALSE

\* captureAndProcessFrame: `settings.autoAdjustQuality && imageData.length > maxFrameSize`
DropForSize(auto, size) == auto /\ size > maxFrameSize

CapOp(op, ok) == [op |-> op, ok |-> ok, size |-> 0]

\* stopCapture(): cancel the pending callback, isSharing = false; once destroy()
\* has set this.settings to null the assignment throws a TypeError
stopCaptureEffect ==
    /\ rafId' = 0
    /\ rafPending' = IF rafId # 0 THEN FALSE ELSE rafPending
    /\ isSharing' = IF destroyed THEN isSharing ELSE FALSE

\* startCapture() on an available stream: isSharing = true and the counters are
\* reset, then this.stopCapture() (which sets isSharing = false again), then the
\* capture callback is requested
startCaptureEffect ==
    /\ frameId' = 0
    /\ framesSent' = 0
    /\ isSharing' = FALSE
    /\ rafId' = 1
    /\ rafPending' = TRUE

\* startScreenCapture(): a held stream is released first (stopScreenCapture), then
\* getDisplayMedia resolves (ok) or rejects (handleCaptureError -> stopScreenCapture)
StartScreenCapture(ok) ==
    /\ stream' = ok
    /\ IF ok /\ ~stream
         THEN UNCHANGED <<isSharing, rafId, rafPending>>
         ELSE stopCaptureEffect
    /\ emitted' = <<>>
    /\ capOp' = CapOp("startScreenCapture", ok)
    /\ UNCHANGED <<frameId, framesSent, quality, autoAdjustQuality, socketState, inflight>>
    /\ UNCHANGED <<metricsDropped, lastSentId, destroyed>>
    /\ UNCHANGED <<hubVars, ctlVars, rxVars, recVars, appVars, linkVars, paceVars, tierVars>>

\* startCapture()
StartCapture ==
    /\ IF ~stream
         THEN /\ capOp' = CapOp("startCapture", FALSE)
              /\ UNCHANGED <<isSharing, rafId, rafPending, frameId, framesSent>>
         ELSE /\ capOp' = CapOp("startCapture", TRUE)
              /\ startCaptureEffect
    /\ emitted' = <<>>
    /\ UNCHANGED <<stream, quality, autoAdjustQuality, socketState, inflight>>
    /\ UNCHANGED <<metricsDropped, lastSentId, destroyed>>
    /\ UNCHANGED <<hubVars, ctlVars, rxVars, recVars, appVars, linkVars, paceVars, tierVars>>

\* bound of the model on metrics.droppedFrames between two resets of the monitor
MaxDropped == 1

\* the animation-frame callback captureFrame of startCapture; elapsedEnough is
\* `elapsed >= frameInterval`.  captureAndProcessFrame draws the frame and suspends
\* in `await this.encodeFrame()`; a drawImage that throws (drawOk false) lands in
\* its catch block, which counts a dropped frame
Tick(elapsedEnough, drawOk) ==
    /\ rafPending
    /\ IF ~isSharing
         THEN /\ rafPending' = FALSE
              /\ drawOk
              /\ UNCHANGED <<rafId, inflight, metricsDropped>>
              /\ capOp' = CapOp("tick", FALSE)
         ELSE /\ rafPending' = TRUE
              /\ rafId' = 1
              /\ IF elapsedEnough
                   THEN IF drawOk
                          THEN /\ inflight < MaxInflight
                               /\ inflight' = inflight + 1
                               /\ UNCHANGED metricsDropped
                               /\ capOp' = CapOp("tick", TRUE)
                          ELSE /\ metricsDropped < MaxDropped
                               /\ metricsDropped' = metricsDropped + 1
                               /\ UNCHANGED inflight
                               /\ capOp' = CapOp("drawFailed", FALSE)
                   ELSE /\ drawOk
                        /\ UNCHANGED <<inflight, metricsDropped>>
                        /\ capOp' = CapOp("tick", FALSE)
    /\ emitted' = <<>>
    /\ UNCHANGED <<stream, isSharing, frameId, framesSent, quality, autoAdjustQuality,
                   socketState, lastSentId, destroyed>>
    /\ UNCHANGED <<hubVars, ctlVars, rxVars, recVars, appVars, linkVars, paceVars, tierVars>>

\* the message of sendFrame: socket.emit('screen-data', {...})
ScreenDataMsg(id, size, q) == [image |-> "img", frameId |-> id, size |-> size, quality |-> q]

\* the rest of captureAndProcessFrame once the encode has returned a data URL of
\* length size: the size check, `frameId: this.frameId++`, sendFrame
EncodeDone(size) ==
    /\ inflight > 0
    /\ inflight' = inflight - 1
    /\ IF DropForSize(autoAdjustQuality, size)
         THEN /\ quality' = adjustQualityBasedOnSize(quality, size)
              /\ emitted' = <<>>
              /\ capOp' = [op |-> "encodeDone", ok |-> FALSE, size |-> size]
              /\ UNCHANGED <<frameId, framesSent, lastSentId>>
         ELSE /\ frameId < MaxFrameId
              /\ frameId' = frameId + 1
              /\ UNCHANGED quality
              /\ IF socketState = "connected"
                   THEN /\ emitted' = <<ScreenDataMsg(frameId, size, quality)>>
                        /\ lastSentId' = frameId
                        /\ framesSent' = framesSent + 1
                        /\ capOp' = [op |-> "encodeDone", ok |-> TRUE, size |-> size]
                   \* socket null: return; not connected: socket.connect() and return
                   ELSE /\ emitted' = <<>>
                        /\ UNCHANGED <<framesSent, lastSentId>>
                        /\ capOp' = [op |-> "encodeDone", ok |-> FALSE, size |-> size]
    /\ UNCHANGED <<stream, isSharing, rafId, rafPending, autoAdjustQuality, socketState>>
    /\ UNCHANGED <<metricsDropped, destroyed>>
    /\ UNCHANGED <<hubVars, ctlVars, rxVars, recVars, appVars, linkVars, paceVars, tierVars>>

\* the rest of captureAndProcessFrame once the encode has failed: encodeFrame
\* catches the error and returns null, and `if (!imageData) return null` leaves
\* without reaching the catch block of captureAndProcessFrame
EncodeFailed ==
    /\ inflight > 0
    /\ inflight' = inflight - 1
    /\ emitted' = <<>>
    /\ capOp' = CapOp("encodeFailed", FALSE)
    /\ UNCHANGED <<stream, isSharing, rafId, rafPending, frameId, framesSent, quality,
                   autoAdjustQuality, socketState, metricsDropped, lastSentId, destroyed>>
    /\ UNCHANGED <<hubVars, ctlVars, rxVars, recVars, appVars, linkVars, paceVars, tierVars>>

\* the interval callback of startPerformanceMonitoring, running while a stream is
\* held: it logs the counters and resets metrics.droppedFrames
PerformanceMonitor ==
    /\ stream
    /\ metricsDropped' = 0
    /\ emitted' = <<>>
    /\ capOp' = CapOp("performanceMonitor", TRUE)
    /\ UNCHANGED <<stream, isSharing, rafId, rafPending, frameId, framesSent, quality,
                   autoAdjustQuality, socketState, inflight, lastSentId, destroyed>>
    /\ UNCHANGED <<hubVars, ctlVars, rxVars, recVars, appVars, linkVars, paceVars, tierVars>>

\* stopCapture()
StopCapture ==
    /\ stopCaptureEffect
    /\ emitted' = <<>>
    /\ capOp' = CapOp("stopCapture", ~destroyed)
    /\ UNCHANGED <<stream, frameId, framesSent, quality, autoAdjustQuality, socketState,
                   inflight>>
    /\ UNCHANGED <<metricsDropped, lastSentId, destroyed>>
    /\ UNCHANGED <<hubVars, ctlVars, rxVars, recVars, appVars, linkVars, paceVars, tierVars>>

\* stopScreenCapture(), also reached as stop(): stopCapture, then the tracks are
\* stopped and the stream dropped; when stopCapture throws, the rest is skipped and
\* the promise of this async method rejects
StopScreenCapture ==
    /\ stopCaptureEffect
    /\ stream' = IF destroyed THEN stream ELSE FALSE
    /\ emitted' = <<>>
    /\ capOp' = CapOp("stopScreenCapture", ~destroyed)
    /\ UNCHANGED <<frameId, framesSent, quality, autoAdjustQuality, socketState, inflight>>
    /\ UNCHANGED <<metricsDropped, lastSentId, destroyed>>
    /\ UNCHANGED <<hubVars, ctlVars, rxVars, recVars, appVars, linkVars, paceVars, tierVars>>

\* destroy(): this.stopScreenCapture(), not awaited, then settings and metrics are
\* set to null; the outcome is that of the stopScreenCapture call
Destroy ==
    /\ stopCaptureEffect
    /\ stream' = IF destroyed THEN stream ELSE FALSE
    /\ destroyed' = TRUE
    /\ emitted' = <<>>
    /\ capOp' = CapOp("destroy", ~destroyed)
    /\ UNCHANGED <<frameId, framesSent, quality, autoAdjustQuality, socketState, inflight>>
    /\ UNCHANGED <<metricsDropped, lastSentId>>
    /\ UNCHANGED <<hubVars, ctlVars, rxVars, recVars, appVars, linkVars, paceVars, tierVars>>

\* pauseCapture(): the document became hidden
PauseCapture ==
    /\ rafId' = 0
    /\ rafPending' = IF rafId # 0 THEN FALSE ELSE rafPending
    /\ emitted' = <<>>
    /\ capOp' = CapOp("pauseCapture", TRUE)
    /\ UNCHANGED <<stream, isSharing, frameId, framesSent, quality, autoAdjustQuality,
                   socketState, inflight>>
    /\ UNCHANGED <<metricsDropped, lastSentId, destroyed>>
    /\ UNCHANGED <<hubVars, ctlVars, rxVars, recVars, appVars, linkVars, paceVars, tierVars>>

\* resumeCapture(): the document became visible while settings.isSharing
ResumeCapture ==
    /\ isSharing
    /\ IF ~stream
         THEN /\ capOp' = CapOp("resumeCapture", FALSE)
              /\ UNCHANGED <<isSharing, rafId, rafPending, frameId, framesSent>>
         ELSE /\ capOp' = CapOp("resumeCapture", TRUE)
              /\ startCaptureEffect
    /\ emitted' = <<>>
    /\ UNCHANGED <<stream, quality, autoAdjustQuality, socketState, inflight>>
    /\ UNCHANGED <<metricsDropped, lastSentId, destroyed>>
    /\ UNCHANGED <<hubVars, ctlVars, rxVars, recVars, appVars, linkVars, paceVars, tierVars>>

\* setQuality(quality): settings.quality = parseFloat(quality)
SetQuality(q) ==
    /\ quality' = q
    /\ emitted' = <<>>
    /\ capOp' = CapOp("setQuality", TRUE)
    /\ UNCHANGED <<stream, isSharing, rafId, rafPending, frameId, framesSent,
                   autoAdjustQuality, socketState, inflight>>
    /\ UNCHANGED <<metricsDropped, lastSentId, destroyed>>
    /\ UNCHANGED <<hubVars, ctlVars, rxVars, recVars, appVars, linkVars, paceVars, tierVars>>

\* the change listener of the autoAdjustQuality checkbox
AutoAdjustChanged(checked) ==
    /\ autoAdjustQuality' = checked
    /\ autoAdjustQuality # checked
    /\ emitted' = <<>>
    /\ capOp' = CapOp("autoAdjustChanged", checked)
    /\ UNCHANGED <<stream, isSharing, rafId, rafPending, frameId, framesSent, quality,
                   socketState, inflight>>
    /\ UNCHANGED <<metricsDropped, lastSentId, destroyed>>
    /\ UNCHANGED <<hubVars, ctlVars, rxVars, recVars, appVars, linkVars, paceVars, tierVars>>

\* updateSettings(newSettings) with newSettings = {isSharing: b}: Object.assign, and
\* no restart since neither fps nor resolution changes
UpdateSettings(b) ==
    /\ isSharing' = b
    /\ emitted' = <<>>
    /\ capOp' = CapOp("updateSettings", b)
    /\ UNCHANGED <<stream, rafId, rafPending, frameId, framesSent, quality,
                   autoAdjustQuality, socketState, inflight>>
    /\ UNCHANGED <<metricsDropped, lastSentId, destroyed>>
    /\ UNCHANGED <<hubVars, ctlVars, rxVars, recVars, appVars, linkVars, paceVars, tierVars>>

\* the presenter's transport connects or disconnects (socket.connected changes)
SocketChange(st) ==
    /\ socketState # "null"
    /\ socketState # st
    /\ socketState' = st
    /\ emitted' = <<>>
    /\ capOp' = CapOp("socket", st = "connected")
    /\ UNCHANGED <<stream, isSharing, rafId, rafPending, frameId, framesSent, quality,
                   autoAdjustQuality, inflight>>
    /\ UNCHANGED <<metricsDropped, lastSentId, destroyed>>
    /\ UNCHANGED <<hubVars, ctlVars, rxVars, recVars, appVars, linkVars, paceVars, tierVars>>

\* setSocket(socket), the socket being connected or not
SetSocket(connected) ==
    /\ socketState' = IF connected THEN "connected" ELSE "disconnected"
    /\ emitted' = <<>>
    /\ capOp' = CapOp("setSocket", connected)
    /\ UNCHANGED <<stream, isSharing, rafId, rafPending, frameId, framesSent, quality,
                   autoAdjustQuality, inflight>>
    /\ UNCHANGED <<metricsDropped, lastSentId, destroyed>>
    /\ UNCHANGED <<hubVars, ctlVars, rxVars, recVars, appVars, linkVars, paceVars, tierVars>>

\* setFPS(fps): settings.fps = fps, then restartCaptureIfNeeded() while sharing:
\* stopCapture() now, and startCapture() from a 100 ms timer (the StartCapture step)
SetFPS ==
    /\ IF isSharing
         THEN stopCaptureEffect
         ELSE UNCHANGED <<isSharing, rafId, rafPending>>
    /\ emitted' = <<>>
    /\ capOp' = CapOp("setFPS", isSharing)
    /\ UNCHANGED <<stream, frameId, framesSent, quality, autoAdjustQuality, socketState,
                   inflight>>
    /\ UNCHANGED <<metricsDropped, lastSentId, destroyed>>
    /\ UNCHANGED <<hubVars, ctlVars, rxVars, recVars, appVars, linkVars, paceVars, tierVars>>

\* the state after `new ScreenCapture(options)` without options.socket
CaptureInit ==
    /\ stream = FALSE
    /\ isSharing = FALSE
    /\ rafId = 0
    /\ rafPending = FALSE
    /\ frameId = 0
    /\ framesSent = 0
    /\ quality = 70
    /\ autoAdjustQuality = TRUE
    /\ socketState = "null"
    /\ inflight = 0
    /\ emitted = <<>>
    /\ capOp = CapOp("new", TRUE)
    /\ metricsDropped = 0
    /\ lastSentId = -1
    /\ destroyed = FALSE

CaptureNext ==
    \/ \E ok \in BOOLEAN : StartScreenCapture(ok)
    \/ StartCapture
    \/ \E e \in BOOLEAN : Tick(e, TRUE)
    \/ \E size \in EncodedSizes : EncodeDone(size)
    \/ StopCapture
    \/ StopScreenCapture
    \/ PauseCapture
    \/ ResumeCapture
    \/ \E q \in QualityInputs : SetQuality(q)
    \/ \E b \in BOOLEAN : AutoAdjustChanged(b)
    \/ \E b \in BOOLEAN : UpdateSettings(b)
    \/ \E st \in {"disconnected", "connected"} : SocketChange(st)
    \/ \E connected \in BOOLEAN : SetSocket(connected)

\* lengths of the data URL of a frame that passes the size check and leaves the
\* quality where it is
SteadySizes == {maxFrameSize \div 2}

\* what the owner of a producer calls on it and what its callbacks do until
\* destroy() has run
ProducerAlive ==
    \/ \E ok \in BOOLEAN : StartScreenCapture(ok)
    \/ StartCapture
    \/ \E e \in BOOLEAN, drawOk \in BOOLEAN : Tick(e, drawOk)
    \/ \E size \in SteadySizes : EncodeDone(size)
    \/ EncodeFailed
    \/ PerformanceMonitor
    \/ PauseCapture
    \/ ResumeCapture
    \/ SetFPS
    \/ \E b \in BOOLEAN : UpdateSettings(b)
    \/ \E connected \in BOOLEAN : SetSocket(connected)

\* one producer from construction on, with failing draws and encodes, restarts and
\* the performance monitor; the quality setting is left alone, and a destroyed
\* producer is only stopped or destroyed again
ProducerNext ==
    \/ ~destroyed /\ ProducerAlive
    \/ StopCapture
    \/ StopScreenCapture
    \/ Destroy

(***************************************************************************)
(* Presenter: pacing of the capture loop                                   *)
(***************************************************************************)
\* frameInterval = 1000 / settings.fps, at the default settings.fps of 10
frameInterval == 100

\* the clock of the model stops here
MaxTime == 450

\* milliseconds between startCapture and the callbacks of requestAnimationFrame:
\* faster than the frame interval, equal to it, and slower
TickGaps == {1, 16, 50, 100, 130}

\* milliseconds on the clock before startCapture runs
StartGaps == {1, 16, 99, 190}

\* startCapture(), d milliseconds after the previous step: a new captureFrame
\* closure with `let lastFrameTime = 0`
PaceStart(d) ==
    /\ perfNow + d <= MaxTime
    /\ perfNow' = perfNow + d
    /\ startedAt' = perfNow'
    /\ lastFrameTime' = 0
    /\ captureCalls' = 0
    /\ paceOp' = "start"
    /\ UNCHANGED <<hubVars, capVars, ctlVars, rxVars, recVars, appVars, linkVars, tierVars>>

\* captureFrame: `elapsed >= frameInterval`
FrameDue(elapsed) == elapsed >= frameInterval

\* the animation-frame callback captureFrame while sharing, d milliseconds after
\* the previous step
captureFrame(d) ==
    /\ paceOp # "new"
    /\ perfNow + d <= MaxTime
    /\ perfNow' = perfNow + d
    /\ LET elapsed == perfNow' - lastFrameTime IN
       IF FrameDue(elapsed)
         THEN /\ lastFrameTime' = perfNow' - (elapsed % frameInterval)
              /\ captureCalls' = captureCalls + 1
              /\ paceOp' = "capture"
         ELSE /\ UNCHANGED <<lastFrameTime, captureCalls>>
              /\ paceOp' = "skip"
    /\ UNCHANGED startedAt
    /\ UNCHANGED <<hubVars, capVars, ctlVars, rxVars, recVars, appVars, linkVars, tierVars>>

\* the page has loaded and startCapture has not run yet
PaceInit ==
    /\ perfNow = 0
    /\ startedAt = 0
    /\ lastFrameTime = 0
    /\ captureCalls = 0
    /\ paceOp = "new"

PaceNext ==
    \/ \E d \in StartGaps : PaceStart(d)
    \/ \E d \in TickGaps : captureFrame(d)

(***************************************************************************)
(* Adaptive quality controller, fed encoded sizes directly                 *)
(***************************************************************************)
\* adjustQualityBasedOnSize(frameSize) called with an encoded size
AdjustQuality(size) ==
    /\ ctlPrev' = quality
    /\ ctlSize' = size
    /\ ctlOp' = "adjust"
    /\ quality' = adjustQualityBasedOnSize(quality, size)
    /\ UNCHANGED <<stream, isSharing, rafId, rafPending, frameId, framesSent,
                   autoAdjustQuality, socketState, inflight, emitted, capOp>>
    /\ UNCHANGED <<metricsDropped, lastSentId, destroyed>>
    /\ UNCHANGED <<hubVars, rxVars, recVars, appVars, linkVars, paceVars, tierVars>>

\* setQuality(quality) between two controller calls
CtlSetQuality(q) ==
    /\ ctlPrev' = quality
    /\ ctlSize' = 0
    /\ ctlOp' = "setQuality"
    /\ quality' = q
    /\ UNCHANGED <<stream, isSharing, rafId, rafPending, frameId, framesSent,
                   autoAdjustQuality, socketState, inflight, emitted, capOp>>
    /\ UNCHANGED <<metricsDropped, lastSentId, destroyed>>
    /\ UNCHANGED <<hubVars, rxVars, recVars, appVars, linkVars, paceVars, tierVars>>

ControllerInit ==
    /\ ctlPrev = 70
    /\ ctlSize = 0
    /\ ctlOp = "new"

ControllerNext ==
    \/ \E size \in EncodedSizes : AdjustQuality(size)
    \/ \E q \in QualityInputs : CtlSetQuality(q)

(***************************************************************************)
(* Viewer: frame consumer                                                  *)
(***************************************************************************)
\* handleScreenUpdate(data), data.frameId being id; `if (data.frameId)` is false for
\* frameId 0, `this.lastFrameId > 0` is false until a non-zero frameId was seen
onScreenUpdate(hasImage, id) ==
    IF ~hasImage
         THEN UNCHANGED rxVars
         ELSE /\ frameCount' = frameCount + 1
              /\ rxIds' = Append(rxIds, id)
              /\ IF id # 0
                   THEN /\ droppedFrames' =
                             IF lastFrameId > 0 /\ id > lastFrameId + 1
                               THEN droppedFrames + (id - (lastFrameId + 1))
                               ELSE droppedFrames
                        /\ lastFrameId' = id
                   ELSE UNCHANGED <<lastFrameId, droppedFrames>>

\* socket.on('screen-update') for one more frame
handleScreenUpdate(hasImage, id) ==
    /\ Len(rxIds) < MaxRx
    /\ onScreenUpdate(hasImage, id)
    /\ UNCHANGED <<hubVars, capVars, ctlVars, recVars, appVars, linkVars, paceVars, tierVars>>

ConsumerInit ==
    /\ lastFrameId = 0
    /\ droppedFrames = 0
    /\ frameCount = 0
    /\ rxIds = <<>>

ConsumerNext ==
    \E hasImage \in BOOLEAN, id \in 0..MaxRxId : handleScreenUpdate(hasImage, id)

(***************************************************************************)
(* Viewer: connection quality indicator                                    *)
(***************************************************************************)
\* a JavaScript number: a finite value or NaN; undefined compares like NaN
Num(v) == [nan |-> FALSE, v |-> v]
NaN == [nan |-> TRUE, v |-> 0]

\* x > k and x < k on JavaScript numbers: false when x is NaN
Gt(x, k) == ~x.nan /\ x.v > k
Lt(x, k) == ~x.nan /\ x.v < k

\* updateStats: `Date.now() - data.timestamp`, a number for a millisecond stamp and
\* NaN for an ISO date string
LatencyOf(timestamp, dateNow) ==
    IF timestamp.fmt = "ms" THEN Num(dateNow - timestamp.v) ELSE NaN

\* updateConnectionQuality(latency, fps): the tier it computes and stores
updateConnectionQuality(latency, fps) ==
    IF Gt(latency, 500) \/ Lt(fps, 5) THEN "poor"
    ELSE IF Gt(latency, 200) \/ Lt(fps, 10) THEN "fair"
    ELSE "good"

\* milliseconds a relayed frame takes from the hub's stamp to the viewer's handler
Transits == {50, 300, 600}

\* values returned by fpsCounter.tick(), the rate over the last 30 frame intervals
FpsValues == {3, 7, 30}

\* socket.on('screen-update') for a frame relayed by the hub at time now and
\* received transit milliseconds later: handleScreenUpdate(data), which ends with
\* updateConnectionQuality() (both arguments undefined), then updateStats(data)
OnScreenUpdateEvent(f, now, transit, fps) ==
    /\ Len(rxIds) < MaxRx
    /\ LET data == ScreenUpdate(f, 1, now) IN
       /\ onScreenUpdate(data.image = "img", data.frameId)
       /\ connectionQuality' =
              updateConnectionQuality(LatencyOf(data.timestamp, now + transit), Num(fps))
    /\ rxLatency' = transit
    /\ rxFps' = fps
    /\ tierOp' = "frame"
    /\ UNCHANGED <<hubVars, capVars, ctlVars, recVars, appVars, linkVars, paceVars>>

\* the constructor: this.connectionQuality = 'good'
TierInit ==
    /\ connectionQuality = "good"
    /\ rxLatency = 0
    /\ rxFps = 0
    /\ tierOp = "new"

TierNext ==
    \E f \in Frames, now \in HubClock, transit \in Transits, fps \in FpsValues :
        OnScreenUpdateEvent(f, now, transit, fps)

(***************************************************************************)
(* Viewer: reconnection                                                    *)
(***************************************************************************)
maxReconnectAttempts == 5

RECURSIVE Pow2(_)
Pow2(n) == IF n = 0 THEN 1 ELSE 2 * Pow2(n - 1)

ReconnectDelayUncapped(attempts) == 1000 * Pow2(attempts)

\* Math.min(1000 * Math.pow(2, this.reconnectAttempts), 30000)
ReconnectDelay(attempts) == Min(1000 * Pow2(attempts), 30000)

Status(text, n) == [text |-> text, n |-> n]

TimersKept == timers

\* clearTimeout(this.reconnectTimeout): the handle is that of the newest timer
ClearedTimers == IF reconnectTimeout = "live" THEN SubSeq(timers, 1, Len(timers) - 1)
                 ELSE timers

\* attemptReconnect(); st is the status displayed before the call
attemptReconnect(st) ==
    IF reconnectAttempts < maxReconnectAttempts
      THEN /\ reconnectAttempts' = reconnectAttempts + 1
           /\ timers' = Append(ClearedTimers, ReconnectDelay(reconnectAttempts + 1))
           /\ reconnectTimeout' = "live"
           /\ status' = Status("Reconnecting (n/max)...", reconnectAttempts + 1)
           /\ UNCHANGED errorShown
      ELSE /\ timers' = ClearedTimers
           /\ reconnectTimeout' = IF reconnectTimeout = "null" THEN "null" ELSE "dead"
           /\ status' = st
           /\ errorShown' = TRUE
           /\ UNCHANGED reconnectAttempts

AttemptsKeptOnConnect(attempts) == attempts

\* the connect handler's `this.reconnectAttempts = 0`
AttemptsOnConnect(attempts) == 0

\* socket.on('connect')
OnConnect ==
    /\ vSocket = "connecting"
    /\ vSocket' = "connected"
    /\ IF listening
         THEN /\ reconnectAttempts' = AttemptsOnConnect(reconnectAttempts)
              /\ status' = Status("Connected to server", 0)
              /\ vOp' = "connect"
         ELSE UNCHANGED <<reconnectAttempts, status, vOp>>
    /\ UNCHANGED <<listening, reconnectTimeout, timers, netOnline, errorShown>>
    /\ UNCHANGED <<hubVars, capVars, ctlVars, rxVars, appVars, linkVars, paceVars, tierVars>>

\* socket.on('disconnect'): the transport of a connected viewer is lost; socket.io
\* retries by itself (reconnection: true) unless the server closed the socket
OnDisconnect(retry) ==
    /\ vSocket = "connected"
    /\ vSocket' = IF retry THEN "connecting" ELSE "closed"
    /\ IF listening
         THEN /\ attemptReconnect(Status("Disconnected from server", 0))
              /\ vOp' = "disconnect"
         ELSE UNCHANGED <<reconnectAttempts, reconnectTimeout, timers, status, errorShown,
                          vOp>>
    /\ UNCHANGED <<listening, netOnline>>
    /\ UNCHANGED <<hubVars, capVars, ctlVars, rxVars, appVars, linkVars, paceVars, tierVars>>

\* socket.on('connect_error'): this.handleConnectionError is not defined, the
\* handler throws before changing anything; socket.io retries or gives up
OnConnectError(retry) ==
    /\ vSocket = "connecting"
    /\ vSocket' = IF retry THEN "connecting" ELSE "closed"
    /\ vOp' = IF listening THEN "connect_error" ELSE vOp
    /\ UNCHANGED <<listening, reconnectAttempts, reconnectTimeout, timers, netOnline,
                   status, errorShown>>
    /\ UNCHANGED <<hubVars, capVars, ctlVars, rxVars, appVars, linkVars, paceVars, tierVars>>

\* the setTimeout callback of attemptReconnect: `if (this.socket) this.socket.connect()`
TimerFires(i) ==
    /\ i \in DOMAIN timers
    /\ timers' = SubSeq(timers, 1, i - 1) \o SubSeq(timers, i + 1, Len(timers))
    /\ reconnectTimeout' = IF i = Len(timers) /\ reconnectTimeout = "live" THEN "dead"
                           ELSE reconnectTimeout
    /\ vSocket' = IF vSocket = "closed" THEN "connecting" ELSE vSocket
    /\ vOp' = "timer"
    /\ UNCHANGED <<listening, reconnectAttempts, netOnline, status, errorShown>>
    /\ UNCHANGED <<hubVars, capVars, ctlVars, rxVars, appVars, linkVars, paceVars, tierVars>>

ReconnectsOnAnyChange(isOnline) == TRUE

\* handleConnectionChange: `if (isOnline)` guards the call of attemptReconnect
ReconnectsOn(isOnline) == isOnline

\* handleConnectionChange(isOnline), from the window's online and offline events
handleConnectionChange(isOnline) ==
    /\ netOnline # isOnline
    /\ netOnline' = isOnline
    /\ IF ReconnectsOn(isOnline)
         THEN attemptReconnect(Status("Reconnecting...", 0))
         ELSE /\ status' = Status("Offline - Waiting for network...", 0)
              /\ UNCHANGED <<reconnectAttempts, reconnectTimeout, timers, errorShown>>
    /\ vOp' = IF isOnline THEN "online" ELSE "offline"
    /\ UNCHANGED <<vSocket, listening>>
    /\ UNCHANGED <<hubVars, capVars, ctlVars, rxVars, appVars, linkVars, paceVars, tierVars>>

\* cleanup(): socket.off(), socket.disconnect(), clearTimeout(reconnectTimeout)
Cleanup ==
    /\ listening' = FALSE
    /\ vSocket' = "closed"
    /\ timers' = ClearedTimers
    /\ reconnectTimeout' = IF reconnectTimeout = "null" THEN "null" ELSE "dead"
    /\ vOp' = "cleanup"
    /\ UNCHANGED <<reconnectAttempts, netOnline, status, errorShown>>
    /\ UNCHANGED <<hubVars, capVars, ctlVars, rxVars, appVars, linkVars, paceVars, tierVars>>

\* after the constructor and initialize(): io() is connecting
ReconnectInit ==
    /\ vSocket = "connecting"
    /\ listening = TRUE
    /\ reconnectAttempts = 0
    /\ reconnectTimeout = "null"
    /\ timers = <<>>
    /\ netOnline = TRUE
    /\ status = Status("", 0)
    /\ errorShown = FALSE
    /\ vOp = "new"

ReconnectNext ==
    \/ OnConnect
    \/ \E retry \in BOOLEAN : OnDisconnect(retry)
    \/ \E retry \in BOOLEAN : OnConnectError(retry)
    \/ \E i \in 1..maxReconnectAttempts : TimerFires(i)
    \/ \E isOnline \in BOOLEAN : handleConnectionChange(isOnline)
    \/ Cleanup

(***************************************************************************)
(* Presenter application: startSharing / stopSharing (lecturer/js/app.js)  *)
(***************************************************************************)
\* results of navigator.mediaDevices.getDisplayMedia(constraints)
MediaOutcomes == {"ok", "NotReadableError", "NotAllowedError"}

AppOp(op, ok) == [op |-> op, ok |-> ok]

\* the retry condition of startSharing's inner catch
RetriesMedia(err) == err = "NotReadableError"

\* stopSharing(): `if (!this.isSharing) return;`
stopSharingRuns(sharing) == sharing

\* stopSharing()
stopSharing ==
    IF stopSharingRuns(appIsSharing)
      THEN /\ screenCapture' = FALSE
           /\ scStream' = FALSE
           /\ appStream' = "null"
           /\ onended' = FALSE
           /\ appIsSharing' = FALSE
           /\ startDisabled' = FALSE
      ELSE UNCHANGED <<screenCapture, scStream, appStream, onended, appIsSharing,
                       startDisabled>>

\* the catch block of startSharing: updateStatus, this.stopSharing()
startSharingFailed ==
    /\ stopSharing
    /\ appPhase' = "idle"
    /\ appOp' = AppOp("startFailed", FALSE)

\* a click on the enabled start button: startSharing() up to its first await.
\* One startSharing call is pending at a time.
StartSharing ==
    /\ ~startDisabled
    /\ appPhase = "idle"
    /\ IF appIsSharing
         THEN /\ appOp' = AppOp("startSharing", FALSE)
              /\ UNCHANGED <<appPhase, startDisabled, sessions>>
         ELSE /\ sessions < MaxSessions
              /\ sessions' = sessions + 1
              /\ startDisabled' = TRUE
              /\ appPhase' = "media"
              /\ appOp' = AppOp("startSharing", TRUE)
    /\ UNCHANGED <<appIsSharing, appStream, screenCapture, scStream, orphanStreams,
                   onended, isSocketConnected>>
    /\ UNCHANGED <<hubVars, capVars, ctlVars, rxVars, recVars, linkVars, paceVars, tierVars>>

\* getDisplayMedia(constraints) settles: the stream is kept and video.play() is
\* awaited, or the minimal-constraints retry is made, or the error is rethrown
GetDisplayMedia(outcome) ==
    /\ appPhase = "media"
    /\ IF outcome = "ok"
         THEN /\ appStream' = "live"
              /\ appPhase' = "play"
              /\ appOp' = AppOp("getDisplayMedia", TRUE)
              /\ UNCHANGED <<appIsSharing, screenCapture, scStream, onended, startDisabled>>
         ELSE IF RetriesMedia(outcome)
           THEN /\ appPhase' = "retry"
                /\ appOp' = AppOp("getDisplayMedia", FALSE)
                /\ UNCHANGED <<appIsSharing, appStream, screenCapture, scStream, onended,
                               startDisabled>>
           ELSE startSharingFailed
    /\ UNCHANGED <<orphanStreams, isSocketConnected, sessions>>
    /\ UNCHANGED <<hubVars, capVars, ctlVars, rxVars, recVars, linkVars, paceVars, tierVars>>

\* the retry getDisplayMedia({video: true, audio: false}) settles
GetDisplayMediaRetry(ok) ==
    /\ appPhase = "retry"
    /\ IF ok
         THEN /\ appStream' = "live"
              /\ appPhase' = "play"
              /\ appOp' = AppOp("getDisplayMediaRetry", TRUE)
              /\ UNCHANGED <<appIsSharing, screenCapture, scStream, onended, startDisabled>>
         ELSE startSharingFailed
    /\ UNCHANGED <<orphanStreams, isSocketConnected, sessions>>
    /\ UNCHANGED <<hubVars, capVars, ctlVars, rxVars, recVars, linkVars, paceVars, tierVars>>

\* `await this.videoElement.play()` settles: on success isSharing = true, a new
\* ScreenCapture is made (its own stream null) and startScreenCapture() is awaited
VideoPlay(ok) ==
    /\ appPhase = "play"
    /\ IF ok
         THEN /\ appIsSharing' = TRUE
              /\ startDisabled' = TRUE
              /\ screenCapture' = TRUE
              /\ scStream' = FALSE
              /\ appPhase' = "capture"
              /\ appOp' = AppOp("play", TRUE)
              /\ UNCHANGED <<appStream, onended>>
         ELSE startSharingFailed
    /\ UNCHANGED <<orphanStreams, isSocketConnected, sessions>>
    /\ UNCHANGED <<hubVars, capVars, ctlVars, rxVars, recVars, linkVars, paceVars, tierVars>>

\* `await this.screenCapture.startScreenCapture()` settles.  The instance's own
\* getDisplayMedia gave it a second stream (ok) or it rejected; the app then needs
\* this.screenCapture to be still set, calls startCapture() and registers onended
StartScreenCaptureDone(ok) ==
    /\ appPhase = "capture"
    /\ IF ok /\ screenCapture
         THEN /\ scStream' = TRUE
              /\ onended' = TRUE
              /\ appPhase' = "idle"
              /\ appOp' = AppOp("startScreenCapture", TRUE)
              /\ UNCHANGED <<appIsSharing, appStream, screenCapture, startDisabled,
                             orphanStreams>>
         ELSE /\ orphanStreams' = IF ok THEN orphanStreams + 1 ELSE orphanStreams
              /\ startSharingFailed
    /\ UNCHANGED <<isSocketConnected, sessions>>
    /\ UNCHANGED <<hubVars, capVars, ctlVars, rxVars, recVars, linkVars, paceVars, tierVars>>

\* a click on the stop button: stopSharing()
StopSharing ==
    /\ stopSharing
    /\ appOp' = AppOp("stopSharing", appIsSharing)
    /\ UNCHANGED <<appPhase, orphanStreams, isSocketConnected, sessions>>
    /\ UNCHANGED <<hubVars, capVars, ctlVars, rxVars, recVars, linkVars, paceVars, tierVars>>

\* the user ends the capture from the browser's own control: track.onended
TrackEnded ==
    /\ onended
    /\ stopSharing
    /\ appOp' = AppOp("trackEnded", appIsSharing)
    /\ UNCHANGED <<appPhase, orphanStreams, isSocketConnected, sessions>>
    /\ UNCHANGED <<hubVars, capVars, ctlVars, rxVars, recVars, linkVars, paceVars, tierVars>>

\* socket.on('connect')
AppConnect ==
    /\ ~isSocketConnected
    /\ isSocketConnected' = TRUE
    /\ appOp' = AppOp("connect", TRUE)
    /\ UNCHANGED <<appPhase, appIsSharing, appStream, screenCapture, scStream,
                   orphanStreams, onended, startDisabled, sessions>>
    /\ UNCHANGED <<hubVars, capVars, ctlVars, rxVars, recVars, linkVars, paceVars, tierVars>>

\* socket.on('disconnect'): the status changes and, for a server-side disconnect,
\* socket.connect() is called; the sharing session is not touched
AppDisconnect ==
    /\ isSocketConnected
    /\ isSocketConnected' = FALSE
    /\ appOp' = AppOp("disconnect", appIsSharing)
    /\ UNCHANGED <<appPhase, appIsSharing, appStream, screenCapture, scStream,
                   orphanStreams, onended, startDisabled, sessions>>
    /\ UNCHANGED <<hubVars, capVars, ctlVars, rxVars, recVars, linkVars, paceVars, tierVars>>

AppInit ==
    /\ appPhase = "idle"
    /\ appIsSharing = FALSE
    /\ appStream = "null"
    /\ screenCapture = FALSE
    /\ scStream = FALSE
    /\ orphanStreams = 0
    /\ onended = FALSE
    /\ startDisabled = FALSE
    /\ isSocketConnected = FALSE
    /\ sessions = 0
    /\ appOp = AppOp("new", TRUE)

AppNext ==
    \/ StartSharing
    \/ \E outcome \in MediaOutcomes : GetDisplayMedia(outcome)
    \/ \E ok \in BOOLEAN : GetDisplayMediaRetry(ok)
    \/ \E ok \in BOOLEAN : VideoPlay(ok)
    \/ \E ok \in BOOLEAN : StartScreenCaptureDone(ok)
    \/ StopSharing
    \/ TrackEnded
    \/ AppConnect
    \/ AppDisconnect

(***************************************************************************)
(* End to end: one presenter, one viewer and other connections on the hub  *)
(***************************************************************************)
\* the encoded size of the frames sent end to end: under the ceiling
SizesUnderCeiling == {maxFrameSize \div 2}

\* a client opens its transport: the hub's connection handler runs; the first
\* connection in role "presenter" or "viewer" is the one the presenter's or the
\* viewer's page holds
E2EConnect(c, role) ==
    /\ c <= E2EConns
    /\ onConnection(c)
    /\ CASE role = "presenter" ->
              /\ presenterId = 0
              /\ presenterId' = c
              /\ UNCHANGED viewerId
         [] role = "viewer" ->
              /\ viewerId = 0
              /\ viewerId' = c
              /\ UNCHANGED presenterId
         [] OTHER ->
              /\ presenterId # 0
              /\ viewerId # 0
              /\ UNCHANGED <<presenterId, viewerId>>
    /\ UNCHANGED <<upLink, downLink, viewerFrom>>
    /\ UNCHANGED <<capVars, ctlVars, rxVars, recVars, appVars, paceVars, tierVars>>

\* the identify a client emits from its connect handler reaches the hub: the
\* presenter's page sends type 'lecturer', the viewer's 'student'
E2EIdentify(c, t) ==
    /\ c \in ClientIds
    /\ TypeOf(c) = "unknown"
    /\ c = presenterId => t = "lecturer"
    /\ c = viewerId => t = "student"
    /\ onIdentify(c, t)
    /\ viewerFrom' = IF c = viewerId THEN frameId ELSE viewerFrom
    /\ UNCHANGED <<upLink, downLink, presenterId, viewerId>>
    /\ UNCHANGED <<capVars, ctlVars, rxVars, recVars, appVars, paceVars, tierVars>>

\* the presenter's pipeline sends its next frame (frameId: this.frameId++,
\* sendFrame on the connected socket).  The transport keeps the order of one
\* socket's messages, so the frame is behind the presenter's identify
E2ESendFrame(size) ==
    /\ presenterId # 0
    /\ TypeOf(presenterId) = "lecturer"
    /\ frameId < E2EFrames
    /\ frameId' = frameId + 1
    /\ framesSent' = framesSent + 1
    /\ emitted' = <<ScreenDataMsg(frameId, size, quality)>>
    /\ capOp' = [op |-> "sendFrame", ok |-> TRUE, size |-> size]
    /\ upLink' = Append(upLink, ScreenDataMsg(frameId, size, quality))
    /\ lastSentId' = frameId
    /\ UNCHANGED <<stream, isSharing, rafId, rafPending, quality, autoAdjustQuality,
                   socketState, inflight, metricsDropped, destroyed>>
    /\ UNCHANGED <<downLink, presenterId, viewerId, viewerFrom>>
    /\ UNCHANGED <<hubVars, ctlVars, rxVars, recVars, appVars, paceVars, tierVars>>

\* the copies of the hub's last emissions that go to the viewer's connection
ToViewer(out) ==
    LET mine == SelectSeq(out, LAMBDA m : m.event = "screen-update" /\ viewerId \in m.to)
    IN  [i \in DOMAIN mine |-> mine[i].data]

\* the hub receives the presenter's oldest frame in flight and relays it
E2ERelay(now) ==
    /\ upLink # <<>>
    /\ onScreenData(presenterId, Head(upLink), now)
    /\ upLink' = Tail(upLink)
    /\ downLink' = downLink \o ToViewer(sent')
    /\ UNCHANGED <<presenterId, viewerId, viewerFrom>>
    /\ UNCHANGED <<capVars, ctlVars, rxVars, recVars, appVars, paceVars, tierVars>>

\* the viewer's page handles the oldest screen-update in flight
E2EHandle ==
    /\ downLink # <<>>
    /\ onScreenUpdate(Head(downLink).image = "img", Head(downLink).frameId)
    /\ downLink' = Tail(downLink)
    /\ UNCHANGED <<upLink, presenterId, viewerId, viewerFrom>>
    /\ UNCHANGED <<hubVars, capVars, ctlVars, recVars, appVars, paceVars, tierVars>>

E2ENext ==
    \/ \E c \in ConnIds, role \in {"presenter", "viewer", "other"} : E2EConnect(c, role)
    \/ \E c \in ConnIds, t \in IdentifyTypes : E2EIdentify(c, t)
    \/ \E size \in SizesUnderCeiling : E2ESendFrame(size)
    \/ \E now \in HubClock : E2ERelay(now)
    \/ E2EHandle

LinkInit ==
    /\ upLink = <<>>
    /\ downLink = <<>>
    /\ presenterId = 0
    /\ viewerId = 0
    /\ viewerFrom = -1

Init ==
    /\ HubInit /\ CaptureInit /\ ControllerInit /\ ConsumerInit /\ ReconnectInit
    /\ AppInit /\ LinkInit /\ PaceInit /\ TierInit

SpecHub == Init /\ [][HubNext]_vars

SpecCapture == Init /\ [][CaptureNext]_vars

SpecProducer == Init /\ [][ProducerNext]_vars

SpecPacing == Init /\ [][PaceNext]_vars

SpecTier == Init /\ [][TierNext]_vars

SpecController == Init /\ [][ControllerNext]_vars

SpecConsumer == Init /\ [][ConsumerNext]_vars

SpecReconnect == Init /\ [][ReconnectNext]_vars

SpecApp == Init /\ [][AppNext]_vars

SpecE2E == Init /\ [][E2ENext]_vars

(***************************************************************************)
(* Claims about the relay hub                                              *)
(***************************************************************************)
\* number of messages of the last handler delivered to connection c
Deliveries(c) == Cardinality({i \in DOMAIN sent : c \in sent[i].to})

Relayed == {"screen-update", "student-screen-update", "student-raised-hand",
            "student-lowered-hand", "student-reaction"}

\* C1: with at least one viewer recorded, a frame message from a presenter-role
\* connection is delivered exactly once to every viewer-role connection and to
\* no other connection.
C1_FrameToViewersOnly ==
    (/\ hubEvent.kind = "screen-data"
     /\ TypeOf(hubEvent.from) = "lecturer"
     /\ \E i \in DOMAIN clients : clients[i].type = "student")
    => /\ \A i \in DOMAIN sent : sent[i].event = "screen-update"
       /\ \A i \in DOMAIN clients :
            Deliveries(clients[i].id) = IF clients[i].type = "student" THEN 1 ELSE 0

\* one presenter, three viewers, a presenter frame: three deliveries, none to the presenter
C1_Witness ==
    /\ hubEvent.kind = "screen-data"
    /\ TypeOf(hubEvent.from) = "lecturer"
    /\ Len(clients) = 4
    /\ Cardinality({i \in DOMAIN clients : clients[i].type = "student"}) = 3
    /\ Len(sent) = 3
    /\ Deliveries(hubEvent.from) = 0

\* C2: no connection is delivered a relayed message that it sent itself.
C2_NoEcho ==
    \A i \in DOMAIN sent :
        sent[i].event \in Relayed => hubEvent.from \notin sent[i].to

\* C7: the hub forwards a presenter frame unmodified: frameId, size, quality,
\* image and timestamp of every relayed copy equal those the presenter sent.
C7_ForwardedUnmodified ==
    hubEvent.kind = "screen-data" =>
        \A i \in DOMAIN sent :
            /\ sent[i].data.frameId = hubEvent.data.frameId
            /\ sent[i].data.size = hubEvent.data.size
            /\ sent[i].data.quality = hubEvent.data.quality
            /\ sent[i].data.image = hubEvent.data.image
            /\ sent[i].data.timestamp = hubEvent.data.timestamp

\* C20: a presenter frame handled while no viewer-role connection is recorded is
\* delivered exactly once to every connection except the sender; the fallback is
\* decided per message: a presenter frame handled while a viewer is recorded is
\* delivered to viewer-role connections only.
C20_FallbackPerMessage ==
    (hubEvent.kind = "screen-data" /\ TypeOf(hubEvent.from) = "lecturer") =>
        LET viewers == {i \in DOMAIN clients : clients[i].type = "student"} IN
        \A i \in DOMAIN clients :
            Deliveries(clients[i].id) =
                IF viewers = {}
                  THEN (IF clients[i].id = hubEvent.from THEN 0 ELSE 1)
                  ELSE (IF i \in viewers THEN 1 ELSE 0)

\* a presenter frame was handled with no viewer recorded, next to another
\* presenter and a connection that has not identified: one fallback emission
\* reaching both of them and not the sender
C20_Witness ==
    /\ hubEvent.kind = "screen-data"
    /\ TypeOf(hubEvent.from) = "lecturer"
    /\ \A i \in DOMAIN clients : clients[i].type # "student"
    /\ \E i \in DOMAIN clients : clients[i].type = "unknown"
    /\ \E i \in DOMAIN clients :
           clients[i].type = "lecturer" /\ clients[i].id # hubEvent.from
    /\ Len(sent) = 1
    /\ sent[1].to = ClientIds \ {hubEvent.from}

ViewerMessages == {"student-screen-data", "student-raised-hand", "student-lowered-hand",
                   "student-reaction"}

\* the emissions of the last handler that carry event ev
EmissionsOf(ev) == {i \in DOMAIN sent : sent[i].event = ev}

\* C21: a self-share frame, hand-raised, hand-lowered or reaction message sent by
\* a viewer-role connection is delivered exactly once to every presenter-role
\* connection and to no connection of any other role.
C21_ViewerMessagesToPresentersOnly ==
    (hubEvent.kind \in ViewerMessages /\ TypeOf(hubEvent.from) = "student") =>
        \A i \in DOMAIN clients :
            Deliveries(clients[i].id) = IF clients[i].type = "lecturer" THEN 1 ELSE 0

\* a viewer's message was relayed to two presenters, next to an unidentified connection
C21_Witness ==
    /\ hubEvent.kind \in ViewerMessages
    /\ TypeOf(hubEvent.from) = "student"
    /\ Cardinality({i \in DOMAIN clients : clients[i].type = "lecturer"}) = 2
    /\ \E i \in DOMAIN clients : clients[i].type = "unknown"
    /\ Len(sent) = 2

\* C22: an identify sets the sender's recorded role to the identified role and
\* ends with exactly one connection-count broadcast to all connections, its count
\* the registry size; a presenter-online broadcast to all connections precedes it
\* if and only if the identified role is presenter.
C22_IdentifyBroadcasts ==
    hubEvent.kind = "identify" =>
        /\ TypeOf(hubEvent.from) = hubEvent.data.type
        /\ Cardinality(EmissionsOf("client-count")) = 1
        /\ sent[Len(sent)] = Emit("client-count", ioSockets, [count |-> Len(clients)])
        /\ Cardinality(EmissionsOf("lecturer-connected")) =
              IF hubEvent.data.type = "lecturer" THEN 1 ELSE 0
        /\ \A i \in EmissionsOf("lecturer-connected") :
              sent[i].to = ioSockets /\ sent[i].data.id = hubEvent.from
        /\ Len(sent) = IF hubEvent.data.type = "lecturer" THEN 2 ELSE 1

\* a connection identified as presenter among three connections
C22_Witness ==
    /\ hubEvent.kind = "identify"
    /\ hubEvent.data.type = "lecturer"
    /\ Len(clients) = 3
    /\ Len(sent) = 2
    /\ sent[1].event = "lecturer-connected"

\* C23: a disconnect removes the connection's record and ends with one
\* connection-count broadcast whose count is the registry size after the
\* removal; a presenter-offline broadcast is made if and only if the removed
\* connection's role was presenter.
C23_DisconnectBroadcasts ==
    [][(hubEvent'.kind = "disconnect" /\ hubEvent'.from \in ioSockets \ ioSockets') =>
         LET c == hubEvent'.from
             out == sent'
             offline == {i \in DOMAIN out : out[i].event = "lecturer-disconnected"}
             counts == {i \in DOMAIN out : out[i].event = "client-count"}
         IN  /\ \A i \in DOMAIN clients' : clients'[i].id # c
             /\ Len(clients') = Len(clients) - 1
             /\ Cardinality(counts) = 1
             /\ out[Len(out)] = Emit("client-count", ioSockets', [count |-> Len(clients')])
             /\ Cardinality(offline) = IF TypeOf(c) = "lecturer" THEN 1 ELSE 0
             /\ \A i \in offline : out[i].to = ioSockets' /\ out[i].data.id = c]_vars

\* a presenter disconnected while two other connections stayed
C23_Witness ==
    /\ hubEvent.kind = "disconnect"
    /\ hubEvent.from \notin ioSockets
    /\ Len(clients) = 2
    /\ \E i \in DOMAIN sent : sent[i].event = "lecturer-disconnected"
    /\ sent[Len(sent)].data = [count |-> 2]

\* the registry holds one record for each connected socket and no other record
RegistryMatchesSockets ==
    /\ ClientIds = ioSockets
    /\ Len(clients) = Cardinality(ioSockets)

\* a record appears with role unknown, and a record's role changes only in the
\* identify handler of its own connection
RecordLifecycle ==
    /\ \A i \in DOMAIN clients' :
          clients'[i].id \notin ClientIds => clients'[i].type = "unknown"
    /\ \A i \in DOMAIN clients, j \in DOMAIN clients' :
          (clients[i].id = clients'[j].id /\ clients[i].type # clients'[j].type) =>
              (hubEvent'.kind = "identify" /\ hubEvent'.from = clients[i].id)

\* C24: in every reachable state the registry holds exactly one record per
\* connected socket; a record is created with role unknown on connect, changes
\* role only on its own connection's identify and is deleted on disconnect.
C24_RegistryInvariant ==
    []RegistryMatchesSockets /\ [][RecordLifecycle]_vars

\* connections came and went: five were made, two are left, one of them identified
C24_Witness ==
    /\ nextId = MaxConns + 1
    /\ Cardinality(ioSockets) = 2
    /\ hubEvent.kind = "disconnect"
    /\ \E i \in DOMAIN clients : clients[i].type # "unknown"

\* C25: the presenter-status message sent right after a connection has identified
\* as presenter (and is still connected) reports that connection, the most
\* recently identified presenter.
C25_ReportsLatestPresenter ==
    [][(/\ hubEvent.kind = "identify"
        /\ hubEvent.data.type = "lecturer"
        /\ hubEvent.from \in ioSockets')
       => \A i \in DOMAIN sent' :
             sent'[i].event = "lecturer-status" =>
                 sent'[i].data.lecturer = hubEvent.from]_vars

\* C38: a presenter frame message from a connection whose recorded role is not
\* lecturer, and a self-share frame from a connection whose recorded role is not
\* student, are delivered to no connection and leave the registry as it was
C38_WrongRoleFramesDropped ==
    [][(/\ hubEvent'.from \in ClientIds
        /\ \/ hubEvent'.kind = "screen-data" /\ TypeOf(hubEvent'.from) # "lecturer"
           \/ hubEvent'.kind = "student-screen-data" /\ TypeOf(hubEvent'.from) # "student")
       => /\ sent' = <<>>
          /\ clients' = clients]_vars

\* a viewer-role connection has sent a presenter frame message while another
\* viewer-role connection and a presenter were in the registry
C38_Witness ==
    /\ hubEvent.kind = "screen-data"
    /\ hubEvent.from \in ClientIds
    /\ TypeOf(hubEvent.from) = "student"
    /\ \E i \in DOMAIN clients : clients[i].type = "student" /\ clients[i].id # hubEvent.from
    /\ \E i \in DOMAIN clients : clients[i].type = "lecturer"
    /\ sent = <<>>

\* C39: a presenter-offline notification is broadcast only when no record with
\* role lecturer remains in the registry, so the presenter status broadcast with it
\* reports isOnline = false
C39_OfflineOnlyWhenNoneRemain ==
    \A i \in DOMAIN sent :
        sent[i].event = "lecturer-disconnected"
            => /\ ~\E k \in DOMAIN clients : clients[k].type = "lecturer"
               /\ \A j \in DOMAIN sent :
                     sent[j].event = "lecturer-status" => ~sent[j].data.isOnline

(***************************************************************************)
(* Claims about the capture pipeline                                       *)
(***************************************************************************)
\* C3: after startCapture has succeeded the capture loop is running: sharing is
\* on and the capture callback stays scheduled, so that due ticks capture frames.
C3_LoopRunsAfterStart ==
    (capOp.op = "startCapture" /\ capOp.ok) => (isSharing /\ rafPending)

C8_IdOnlyWhenTransmitted ==
    frameId = framesSent

\* C11: the quality policy is applied after each encode: with autoAdjustQuality
\* on, an encode whose size is below half the ceiling leaves the quality at the
\* value adjustQualityBasedOnSize computes for that size (raised by a tenth, at
\* most 0.9, when the change exceeds 0.05).
C11_SmallFrameRaisesQuality ==
    [][(/\ capOp'.op = "encodeDone"
        /\ inflight' = inflight - 1
        /\ autoAdjustQuality
        /\ 2 * capOp'.size < maxFrameSize)
       => quality' = adjustQualityBasedOnSize(quality, capOp'.size)]_vars

\* C12: once stopCapture or stopScreenCapture has returned, the step that follows
\* emits no frame, a captureAndProcessFrame call suspended in its encode included.
C12_NoFrameAfterStop ==
    [][capOp.op \in {"stopCapture", "stopScreenCapture"} => emitted' = <<>>]_vars

(***************************************************************************)
(* Claims about the presenter application                                  *)
(***************************************************************************)
\* no capture stream is held and none has live tracks
Released == appStream = "null" /\ ~scStream /\ orphanStreams = 0

\* C13: on every exit from a sharing session (explicit stop of a running session,
\* transport disconnect while sharing, error raised while starting) every capture
\* stream that was acquired has its tracks stopped and no handle stays held.
C13_ReleasedOnEveryExit ==
    (\/ appOp.op \in {"stopSharing", "disconnect"} /\ appOp.ok
     \/ appOp.op = "startFailed")
    => Released

(***************************************************************************)
(* End-to-end claims                                                       *)
(***************************************************************************)
\* the viewer was recorded as a viewer before the presenter's first frame
ViewerFirst == viewerId # 0 /\ viewerFrom = 0

\* all frames have been sent and none is in flight
AllDelivered == frameId = E2EFrames /\ upLink = <<>> /\ downLink = <<>>

\* C15: with the viewer connected and identified before the presenter's first
\* frame, the hub forwards every frame of ids 0..9 (each under the ceiling) to the
\* viewer exactly once, and once all have arrived the viewer has handled ids 0..9
\* in order, its dropped-frame count is 0 and its last-seen frameId is 9.
C15_EndToEnd ==
    ViewerFirst =>
        /\ hubEvent.kind = "screen-data" => Deliveries(viewerId) = 1
        /\ AllDelivered =>
              /\ rxIds = [i \in 1..E2EFrames |-> i - 1]
              /\ droppedFrames = 0
              /\ lastFrameId = E2EFrames - 1

\* ten frames went end to end to a viewer that was there first, next to a third
\* connection
C15_Witness ==
    /\ ViewerFirst
    /\ AllDelivered
    /\ Len(rxIds) = E2EFrames
    /\ Len(clients) = 3

\* C29: a start request whose first acquisition of the capture source fails, with
\* a permission denial or a device-busy error, is not failed before one retry of
\* the acquisition has been made
C29_FailureSurfacesAfterRetry ==
    [][~(appPhase = "media" /\ appPhase' = "idle" /\ appOp'.op = "startFailed")]_vars

\* C37: after startSharing has failed, at whatever step, the presenter app is idle
\* again: it is not sharing, holds no stream, and the start control is enabled
C37_FailedStartReturnsToIdle ==
    appOp.op = "startFailed" =>
        /\ appPhase = "idle"
        /\ ~appIsSharing
        /\ appStream = "null"
        /\ ~startDisabled

(***************************************************************************)
(* Claims about the viewer and the quality controller                      *)
(***************************************************************************)
StrictlyIncreasing(ids) == \A i \in 1..(Len(ids) - 1) : ids[i] < ids[i + 1]

RECURSIVE GapSum(_)
GapSum(ids) ==
    IF Len(ids) < 2 THEN 0
    ELSE (ids[2] - ids[1] - 1) + GapSum(Tail(ids))

\* C5: for received frames whose ids increase, the dropped-frame count is the sum
\* of the gap sizes, whatever the first id is.
C5_DroppedIsGapSum ==
    StrictlyIncreasing(rxIds) => droppedFrames = GapSum(rxIds)

\* the ids delivered so far
RxSet == {rxIds[i] : i \in DOMAIN rxIds}

\* C14: a frame whose id is at most lastFrameId is accepted like any other, and
\* no frame, in whatever order the ids arrive, adds to the dropped-frame count an
\* id that was delivered before it: what a frame adds is at most the number of
\* ids between lastFrameId and its own id that have not been delivered.
C14_ReorderingCountedCorrectly ==
    [][Len(rxIds') > Len(rxIds) =>
         LET id == rxIds'[Len(rxIds')] IN
         /\ frameCount' = frameCount + 1
         /\ droppedFrames' - droppedFrames <=
              Cardinality({k \in (lastFrameId + 1)..(id - 1) : k \notin RxSet})]_vars

\* C6: the disconnect of a connected viewer enters Reconnecting(1): the attempt
\* counter is 1 and exactly one connect attempt is pending, due after 2000 ms.
C6_DisconnectEntersReconnecting1 ==
    vOp = "disconnect" => (reconnectAttempts = 1 /\ timers = <<2000>>)

\* C9: the quality parameter stays within [0.1, 0.9].
C9_QualityInRange ==
    quality >= 10 /\ quality <= 90

\* the change adjustQualityBasedOnSize proposes, in thousandths, in exact arithmetic
ProposedChange(q, size) ==
    LET n3 == IF size > maxFrameSize THEN Max(100, q * 9)
              ELSE IF 2 * size < maxFrameSize THEN Min(900, q * 11)
              ELSE 10 * q
    IN  IF n3 > 10 * q THEN n3 - 10 * q ELSE 10 * q - n3

\* C10: a controller call on a quality within [0.1, 0.9] lowers the quality only
\* for a size above the ceiling, raises it only for a size below half the ceiling,
\* and changes nothing when the proposed change is at most 0.05.
C10_DirectionAndBand ==
    (ctlOp = "adjust" /\ ctlPrev >= 10 /\ ctlPrev <= 90) =>
        /\ quality < ctlPrev => ctlSize > maxFrameSize
        /\ quality > ctlPrev => 2 * ctlSize < maxFrameSize
        /\ ProposedChange(ctlPrev, ctlSize) <= 50 => quality = ctlPrev

\* C36: while frames stay above the ceiling the controller does not stall: each
\* oversized frame met at a quality above the 0.1 floor lowers the quality
C36_OversizeLowersUntilFloor ==
    (ctlOp = "adjust" /\ ctlSize > maxFrameSize /\ ctlPrev > 10) => quality < ctlPrev

(***************************************************************************)
(* Claims about the viewer's reconnection                                  *)
(***************************************************************************)
\* C16: while reconnecting with attempt n below the maximum, a failed connect
\* attempt (connect_error) increments the attempt counter and schedules the next
\* connect attempt.
C16_FailedAttemptAdvances ==
    [][(/\ vOp' = "connect_error"
        /\ listening
        /\ vSocket = "connecting"
        /\ reconnectAttempts >= 1
        /\ reconnectAttempts < maxReconnectAttempts)
       => /\ reconnectAttempts' = reconnectAttempts + 1
          /\ reconnectTimeout' = "live"
          /\ timers' # <<>>]_vars

\* the viewer has given up: the counter is at the maximum, the give-up message
\* is shown and no connect attempt is scheduled
GivenUp ==
    /\ reconnectAttempts = maxReconnectAttempts
    /\ errorShown
    /\ timers = <<>>

\* C17: a reconnect requested with the counter at the maximum enters GivenUp with
\* nothing scheduled, and from GivenUp every event other than an explicit action
\* of the user (leaving the page) leaves the viewer in GivenUp.
C17_GivenUpIsTerminal ==
    [][/\ (/\ reconnectAttempts = maxReconnectAttempts
            /\ listening
            /\ vOp' \in {"disconnect", "online"})
           => (reconnectAttempts' = maxReconnectAttempts /\ errorShown' /\ timers' = <<>>)
       /\ (GivenUp /\ vOp' # "cleanup") => GivenUp']_vars

\* C18: after the connect handler has run the transport is connected, the status
\* is "Connected to server" and the attempt counter is 0.
C18_ConnectResetsAttempts ==
    vOp = "connect" =>
        /\ vSocket = "connected"
        /\ reconnectAttempts = 0
        /\ status = Status("Connected to server", 0)

\* the viewer reconnected after it had given up at the maximum, a dead timer
\* handle still stored
C18_Witness ==
    /\ vOp = "connect"
    /\ errorShown
    /\ reconnectTimeout = "dead"
    /\ reconnectAttempts = 0

\* the delays of attempts 1..6 in milliseconds
DelayTable == <<2000, 4000, 8000, 16000, 30000, 30000>>

\* C19: the delay for attempt n is min(1000 * 2^n, 30000), which for attempts
\* 1..6 is 2000, 4000, 8000, 16000, 30000, 30000; the timer a reconnect request
\* schedules for attempt n has that delay.
C19_DelaySequence ==
    /\ \A n \in DOMAIN DelayTable : ReconnectDelay(n) = DelayTable[n]
    /\ (vOp \in {"disconnect", "online"} /\ reconnectTimeout = "live") =>
          (timers # <<>> /\ timers[Len(timers)] = DelayTable[reconnectAttempts])

\* the fifth attempt has been scheduled, at the 30000 ms cap
C19_Witness ==
    /\ vOp \in {"disconnect", "online"}
    /\ reconnectAttempts = maxReconnectAttempts
    /\ timers = <<30000>>

(***************************************************************************)
(* Claims about one producer's lifetime                                    *)
(***************************************************************************)
\* C26: within one producer's lifetime every emitted frame message carries a
\* frameId greater than that of the frame message emitted before it, whatever the
\* interleaving of ticks, pending encodes, pause/resume and capture restarts
C26_FrameIdsIncrease ==
    [][emitted' # <<>> => emitted'[1].frameId > lastSentId]_vars

\* C30: an encode failure is a dropped frame: the producer's dropped-frame counter
\* goes up by one, no frame message is emitted for it and no frameId is consumed
C30_EncodeFailureCounted ==
    [][(capOp'.op = "encodeFailed" /\ inflight' = inflight - 1)
       => /\ metricsDropped' = metricsDropped + 1
          /\ emitted' = <<>>
          /\ frameId' = frameId]_vars

(***************************************************************************)
(* Claims about the pacing of the capture loop                             *)
(***************************************************************************)
\* C27: the frames captured in a run never exceed the target rate: after the
\* first one, each captured frame accounts for a full frame interval of the time
\* since capture started, however fast or irregularly the ticks arrive
C27_RateNeverExceeded ==
    (captureCalls - 1) * frameInterval <= perfNow - startedAt

\* the operations that stop capture: stopCapture, stopScreenCapture (and its alias
\* stop) and destroy
StopOps == {"stopCapture", "stopScreenCapture", "destroy"}

\* C28: a stop operation invoked right after the same stop operation, or on a
\* producer that was never started, raises no error and leaves the device, the
\* tick callback and the sharing flag as they were
C28_StopIdempotent ==
    [][(capOp'.op \in StopOps /\ capOp.op \in {capOp'.op, "new"})
       => /\ capOp'.ok
          /\ UNCHANGED <<stream, isSharing, rafId, rafPending>>]_vars

\* C32: a network-online event makes the viewer try to connect at once: a closed
\* transport is connecting when the handler returns, without a backoff delay
C32_OnlineConnectsAtOnce ==
    [][(vOp' = "online" /\ ~netOnline /\ netOnline' /\ listening /\ vSocket = "closed")
       => vSocket' = "connecting"]_vars

\* C33: a network-offline event while the transport is connected sets the status
\* to waiting-for-network and leaves the attempt counter and the pending
\* reconnection timer as they were
C33_OfflineLeavesReconnectState ==
    [][(vOp' = "offline" /\ netOnline /\ ~netOnline' /\ vSocket = "connected")
       => /\ status' = Status("Offline - Waiting for network...", 0)
          /\ UNCHANGED <<reconnectAttempts, reconnectTimeout, timers>>]_vars

\* the network went offline while the viewer was connected with a reconnection
\* timer still pending
C33_Witness ==
    /\ vOp = "offline"
    /\ vSocket = "connected"
    /\ listening
    /\ timers # <<>>
    /\ status = Status("Offline - Waiting for network...", 0)

\* C34: once the viewer's connection is torn down no connect attempt fires: the
\* pending reconnection timer is cancelled and none goes off afterwards
C34_NoConnectAfterTeardown ==
    [][~listening => ~(vOp' = "timer" /\ Len(timers') < Len(timers))]_vars

\* C35: whenever the viewer's transport is connected the attempt counter is 0
C35_ConnectedMeansZeroAttempts ==
    (vSocket = "connected" /\ listening) => reconnectAttempts = 0

\* C40: the attempt counter stays within 0..maxReconnectAttempts and at most one
\* reconnection timer is pending
C40_AttemptsAndTimersBounded ==
    /\ reconnectAttempts \in 0..maxReconnectAttempts
    /\ Len(timers) <= 1

\* the last attempt was requested by a network-online event and its timer is the
\* only one pending
C40_Witness ==
    /\ vOp = "online"
    /\ reconnectAttempts = maxReconnectAttempts
    /\ Len(timers) = 1
    /\ reconnectTimeout = "live"

(***************************************************************************)
(* Claims about the viewer's connection quality indicator                  *)
(***************************************************************************)
\* the tier the threshold pairs give for a latency in milliseconds and a frame rate
Tier(latency, fps) ==
    IF latency > 500 \/ fps < 5 THEN "poor"
    ELSE IF latency > 200 \/ fps < 10 THEN "fair"
    ELSE "good"

\* C31: after each received frame the viewer's visible quality tier is the one the
\* threshold pairs give for that frame's latency and the smoothed frame rate
C31_TierFollowsLatencyAndRate ==
    tierOp = "frame" => connectionQuality = Tier(rxLatency, rxFps)

=============================================================================
